---------------------------- MODULE Spec2Model ----------------------------
(***************************************************************************)
(* State-machine model of src/index.ts: the URL collection pass of every   *)
(* search term (PageHandler), the checkpoint files, and the download pass  *)
(* (ImageDownloader), driven by ImageScraper.run.                          *)
(*                                                                         *)
(* Strings that the code inspects or converts (URLs, file contents) are    *)
(* sequences of one-character strings, so that startsWith, JSON.stringify  *)
(* and JSON.parse are computed character by character.                     *)
(***************************************************************************)
EXTENDS Integers, Sequences, FiniteSets, TLC

(***************************************************************************)
(* Program constants                                                       *)
(***************************************************************************)
\* src/index.ts:18-21
SEARCH_TERMS == <<"carrot", "apple">>

\* src/index.ts:25
maxLoadAttempts == 10

\* process.env.GALLERY_URL_PREFIX (src/index.ts:65), the configured prefix
GALLERY_URL_PREFIX == <<"g", "/">>

(***************************************************************************)
(* Bounds of the model                                                     *)
(***************************************************************************)
\* response events delivered by the page in one run
MaxEvents == 3

\* faults (rejected awaits, failed writes) the environment raises in one run
MaxFaults == 1

(***************************************************************************)
(* The environment's values                                                *)
(***************************************************************************)
\* URLs the page's responses carry: two under the gallery prefix (one of
\* them holding a backslash, which JSON has to escape) and one that only
\* contains the prefix further in.
UrlA == <<"g", "/", "a">>
UrlB == <<"g", "/", "\\">>
UrlX == <<"x", "g", "/">>
URLS == {UrlA, UrlB, UrlX}

\* values of document.body.scrollHeight the page may report
Heights == {100, 150, 200}

\* status codes of a download response that arrives
StatusCodes == {200, 204, 404}

TermIdx == 1..Len(SEARCH_TERMS)

NoFile == <<"<no file>">>

(***************************************************************************)
(* Pure helpers                                                            *)
(***************************************************************************)
\* String.prototype.includes, in the place of startsWith
Includes(url, prefix) ==
    \E j \in 1..(Len(url) - Len(prefix) + 1) :
        SubSeq(url, j, j + Len(prefix) - 1) = prefix

\* String.prototype.startsWith
StartsWith(url, prefix) ==
    /\ Len(url) >= Len(prefix)
    /\ SubSeq(url, 1, Len(prefix)) = prefix

\* elements of a sequence
Range(s) == {s[i] : i \in DOMAIN s}

\* [...new Set(xs)]: a Set keeps each value once, in insertion order
RECURSIVE SetSpread(_, _)
SetSpread(xs, acc) ==
    IF xs = <<>> THEN acc
    ELSE IF Head(xs) \in Range(acc)
         THEN SetSpread(Tail(xs), acc)
         ELSE SetSpread(Tail(xs), Append(acc, Head(xs)))

Dedup(xs) == SetSpread(xs, <<>>)

(***************************************************************************)
(* JSON.stringify(value, null, 2) and JSON.parse on arrays of strings      *)
(***************************************************************************)
\* the escape JSON.stringify writes for one character of a string
JSONescape(c) ==
    IF c = "\"" THEN <<"\\", "\"">>
    ELSE IF c = "\\" THEN <<"\\", "\\">>
    ELSE IF c = "\n" THEN <<"\\", "n">>
    ELSE <<c>>

RECURSIVE JSONescapeAll(_)
JSONescapeAll(str) ==
    IF str = <<>> THEN <<>>
    ELSE JSONescape(Head(str)) \o JSONescapeAll(Tail(str))

\* a string literal: the escaped characters between double quotes
JSONquote(str) == <<"\"">> \o JSONescapeAll(str) \o <<"\"">>

RECURSIVE JSONitems(_, _)
JSONitems(arr, first) ==
    IF arr = <<>> THEN <<>>
    ELSE (IF first THEN <<>> ELSE <<",">>)
         \o <<"\n", " ", " ">> \o JSONquote(Head(arr))
         \o JSONitems(Tail(arr), FALSE)

\* JSON.stringify(arr, null, 2): one element per line, indented by two
\* spaces; the empty array is "[]"
JSONstringify(arr) ==
    IF arr = <<>> THEN <<"[", "]">>
    ELSE <<"[">> \o JSONitems(arr, TRUE) \o <<"\n", "]">>

JSONfail == [ok |-> FALSE, val |-> <<>>, next |-> 0]

RECURSIVE JSONskipWs(_, _)
JSONskipWs(text, i) ==
    IF i <= Len(text) /\ text[i] \in {" ", "\n", "\t", "\r"}
    THEN JSONskipWs(text, i + 1)
    ELSE i

\* the characters of a string literal whose opening quote precedes text[i]
RECURSIVE JSONreadString(_, _, _)
JSONreadString(text, i, acc) ==
    IF i > Len(text) THEN JSONfail
    ELSE IF text[i] = "\"" THEN [ok |-> TRUE, val |-> acc, next |-> i + 1]
    ELSE IF text[i] = "\\"
         THEN IF i + 1 > Len(text) THEN JSONfail
              ELSE IF text[i + 1] \in {"\"", "\\", "/"}
                   THEN JSONreadString(text, i + 2, Append(acc, text[i + 1]))
              ELSE IF text[i + 1] = "n"
                   THEN JSONreadString(text, i + 2, Append(acc, "\n"))
              ELSE JSONfail
    ELSE IF text[i] \in {"\n", "\t", "\r"} THEN JSONfail
    ELSE JSONreadString(text, i + 1, Append(acc, text[i]))

\* the elements of an array from text[i] on, up to the closing bracket
RECURSIVE JSONreadElems(_, _, _)
JSONreadElems(text, i, acc) ==
    IF i > Len(text) \/ text[i] # "\"" THEN JSONfail
    ELSE LET r == JSONreadString(text, i + 1, <<>>)
             j == JSONskipWs(text, r.next)
         IN  IF ~r.ok \/ j > Len(text) THEN JSONfail
             ELSE IF text[j] = ","
                  THEN JSONreadElems(text, JSONskipWs(text, j + 1),
                                     Append(acc, r.val))
             ELSE IF text[j] = "]" /\ JSONskipWs(text, j + 1) > Len(text)
                  THEN [ok |-> TRUE, val |-> Append(acc, r.val), next |-> j + 1]
             ELSE JSONfail

\* JSON.parse of a text holding an array of strings; ok = FALSE stands for
\* the SyntaxError it throws
JSONparse(text) ==
    LET i == JSONskipWs(text, 1)
    IN  IF i > Len(text) \/ text[i] # "[" THEN JSONfail
        ELSE LET j == JSONskipWs(text, i + 1)
             IN  IF j > Len(text) THEN JSONfail
                 ELSE IF text[j] = "]"
                      THEN IF JSONskipWs(text, j + 1) > Len(text)
                           THEN [ok |-> TRUE, val |-> <<>>, next |-> j + 1]
                           ELSE JSONfail
                 ELSE JSONreadElems(text, j, <<>>)

(***************************************************************************)
(* State                                                                   *)
(***************************************************************************)
VARIABLES
    pc,               \* the await ImageScraper.run is at
    k,                \* index in SEARCH_TERMS of the term being handled
    attempts,         \* loadAllImages: let attempts
    previousHeight,   \* loadAllImages: let previousHeight
    networkRequests,  \* PageHandler.networkRequests, one per instance
    listeners,        \* instances whose "response" callback is on the page
    outFile,          \* output/captured_urls_<term>.json: text or NoFile
    urls,             \* downloadAllImages: const urls
    i,                \* downloadAllImages: let i
    images,           \* files present under ./images
    console,          \* lines logged by the download pass
    browserOpen,      \* the browser session is open
    exitCode,         \* -1 while the process runs
    eventsLeft,       \* response events the page may still deliver
    faultsLeft,       \* faults the environment may still raise
    \* ---- history, read by the properties only ----
    observed,         \* URLs each instance's callback has been called with
    written,          \* the array last handed to writeFileSync, per term
    writes,           \* writeFileSync calls on each term's file so far
    fresh,            \* terms whose file this run has written
    stopReason,       \* how the load loop of each term ended
    cycle,            \* what the load cycle under way has done so far
    eqs,              \* equal-height measurements since the counter was 0
    caught,           \* faults caught by the loop since the counter was 0
    scenarioAt,       \* readings of Scenario matched by this loop, or -1
    sinceChange,      \* cycles begun since the recorded height last changed
    fetches,          \* downloadImage calls: <<url, file name>>
    delayed           \* the inter-download delay ran since the last fetch

progVars == <<pc, k, attempts, previousHeight, networkRequests, listeners,
              outFile, urls, i, images, console, browserOpen, exitCode>>
envVars  == <<eventsLeft, faultsLeft>>
histVars == <<observed, written, writes, fresh, stopReason, cycle, eqs, caught,
              scenarioAt, sinceChange, fetches, delayed>>
vars     == <<progVars, envVars, histVars>>

\* the readings of the spec's convergence scenario
Scenario == <<100, 150, 150, 150, 150, 150, 150, 150, 150, 150, 150, 200>>

\* arrays an earlier run may have written to a checkpoint file; a run
\* starts with such a file for the first term and with none for the others
StaleArrays == {<<UrlB, UrlA>>}

\* `${term}-${i + 1}.png` under ./images/images_${term}
FileName(term, idx) == <<term, idx + 1>>

Init ==
    /\ pc = "construct"
    /\ k = 1
    /\ attempts = 0
    /\ previousHeight = 0
    /\ networkRequests = [t \in TermIdx |-> <<>>]
    /\ listeners = {}
    /\ \E stale \in StaleArrays :
         written = [t \in TermIdx |-> IF t = 1 THEN stale ELSE NoFile]
    /\ outFile = [t \in TermIdx |->
                    IF written[t] = NoFile THEN NoFile
                    ELSE JSONstringify(written[t])]
    /\ urls = <<>>
    /\ i = 0
    /\ images = {}
    /\ console = <<>>
    /\ browserOpen = TRUE
    /\ exitCode = -1
    /\ eventsLeft = MaxEvents
    /\ faultsLeft = MaxFaults
    /\ observed = [t \in TermIdx |-> {}]
    /\ writes = [t \in TermIdx |-> IF written[t] = NoFile THEN 0 ELSE 1]
    /\ fresh = {}
    /\ stopReason = [t \in TermIdx |-> "none"]
    /\ cycle = <<>>
    /\ eqs = 0
    /\ caught = 0
    /\ scenarioAt = 0
    /\ sinceChange = 0
    /\ fetches = <<>>
    /\ delayed = FALSE

loopVars == <<attempts, previousHeight>>
netVars  == <<networkRequests, listeners, observed>>
fileVars == <<outFile, written, writes, fresh>>
dlVars   == <<urls, i, images, console, fetches, delayed>>
loopHist == <<stopReason, cycle, eqs, caught, scenarioAt, sinceChange>>
procVars == <<browserOpen, exitCode>>

N == Len(SEARCH_TERMS)

\* a for-of that takes the last element for the end of the list
MoreTermsOneLess(idx) == idx < N - 1

\* for (const term of SEARCH_TERMS): an element follows the one at idx
MoreTerms(idx) == idx < N

\* i++ (src/index.ts:180)
NextIndex(idx) == idx + 1

\* the environment raises one more fault
RaiseFault == faultsLeft > 0 /\ faultsLeft' = faultsLeft - 1

(***************************************************************************)
(* PageHandler: the "response" callback                                    *)
(***************************************************************************)
\* the callback's body: push the URL when it starts with the prefix
Collect(reqs, url) ==
    IF StartsWith(url, GALLERY_URL_PREFIX) THEN Append(reqs, url) ELSE reqs

\* One response event of the shared page.  page.on adds a callback per
\* PageHandler and nothing removes one, so every instance constructed so far
\* is called.
Observe ==
    /\ exitCode = -1
    /\ browserOpen
    /\ listeners # {}
    /\ eventsLeft > 0
    /\ \E url \in URLS :
         /\ networkRequests' =
              [t \in TermIdx |-> IF t \in listeners
                                 THEN Collect(networkRequests[t], url)
                                 ELSE networkRequests[t]]
         /\ observed' =
              [t \in TermIdx |-> IF t \in listeners
                                 THEN observed[t] \cup {url}
                                 ELSE observed[t]]
    /\ eventsLeft' = eventsLeft - 1
    /\ UNCHANGED <<pc, k, loopVars, listeners, fileVars, dlVars, loopHist,
                   procVars, faultsLeft>>

(***************************************************************************)
(* ImageScraper.run: the collection pass                                   *)
(***************************************************************************)
\* new PageHandler(page, searchTerm)
Construct ==
    /\ pc = "construct"
    /\ networkRequests' = [networkRequests EXCEPT ![k] = <<>>]
    /\ listeners' = listeners \cup {k}
    /\ pc' = "goto"
    /\ UNCHANGED <<k, loopVars, observed, fileVars, dlVars, loopHist,
                   procVars, envVars>>

\* page.goto and page.waitForLoadState; a rejection reaches run's catch
Goto ==
    /\ pc = "goto"
    /\ \/ pc' = "search" /\ UNCHANGED faultsLeft
       \/ RaiseFault /\ pc' = "catch"
    /\ UNCHANGED <<k, loopVars, netVars, fileVars, dlVars, loopHist,
                   procVars, eventsLeft>>

\* performSearch, then the first lines of loadAllImages; a rejection of
\* performSearch (the search input is not found) reaches run's catch
PerformSearch ==
    /\ pc = "search"
    /\ \/ /\ pc' = "scroll"
          /\ attempts' = 0
          /\ previousHeight' = 0
          /\ cycle' = <<>>
          /\ eqs' = 0
          /\ caught' = 0
          /\ scenarioAt' = 0
          /\ sinceChange' = 0
          /\ UNCHANGED <<faultsLeft, stopReason>>
       \/ /\ RaiseFault
          /\ pc' = "catch"
          /\ UNCHANGED <<loopVars, loopHist>>
    /\ UNCHANGED <<k, netVars, fileVars, dlVars, procVars, eventsLeft>>

(***************************************************************************)
(* PageHandler.loadAllImages                                               *)
(***************************************************************************)
\* a loop test that allows one stall more
LoopContinuesOneMore(att) == att < maxLoadAttempts + 1

\* a loop test that gives up one stall early
LoopContinuesOneLess(att) == att < maxLoadAttempts - 1

\* while (attempts < CONFIG.maxLoadAttempts)
LoopContinues(att) == att < maxLoadAttempts

\* a loop body that measures the height before it looks for the button
NextStepMeasureFirst(step) ==
    CASE step = "scroll"  -> "measure"
      [] step = "measure" -> "lookup"
      [] step = "lookup"  -> "click"
      [] step = "click"   -> "waitNew"
      [] step = "waitNew" -> "waitDom"
      [] step = "waitDom" -> "scroll"

\* the order of the awaits of one pass through the loop body
NextStep(step) ==
    CASE step = "scroll"  -> "lookup"
      [] step = "lookup"  -> "click"
      [] step = "click"   -> "measure"
      [] step = "measure" -> "waitNew"
      [] step = "waitNew" -> "waitDom"
      [] step = "waitDom" -> "scroll"

\* a comparison that forgets the reset of the counter
StallAfterMeasureNoReset(att, prev, h) == IF h = prev THEN att + 1 ELSE att

\* if (currentHeight === previousHeight) attempts++ else attempts = 0
StallAfterMeasure(att, prev, h) == IF h = prev THEN att + 1 ELSE 0

\* ... else previousHeight = currentHeight
HeightAfterMeasure(prev, h) == IF h = prev THEN prev ELSE h

\* a deduplication that keeps the last occurrence of each value
RECURSIVE SnapshotKeepLast(_)
SnapshotKeepLast(reqs) ==
    IF reqs = <<>> THEN <<>>
    ELSE IF Head(reqs) \in Range(Tail(reqs))
         THEN SnapshotKeepLast(Tail(reqs))
         ELSE <<Head(reqs)>> \o SnapshotKeepLast(Tail(reqs))

\* [...new Set(this.networkRequests)]
Snapshot(reqs) == Dedup(reqs)

\* a download pass that does not test for the file
FileExistsUntested(file) == TRUE

\* fs.existsSync(urlsFile)
FileExists(file) == file # NoFile

\* a write that appends to what the file holds
WriteFileAppend(old, data) == IF old = NoFile THEN data ELSE old \o data

\* fs.writeFileSync(path, data): the file holds data and nothing else
WriteFile(old, data) == data

\* loadAllImages has returned or thrown: its locals, and what the history says of its
\* loop, are gone
LocalsGone ==
    /\ attempts' = 0
    /\ previousHeight' = 0
    /\ cycle' = <<>>
    /\ eqs' = 0
    /\ caught' = 0
    /\ scenarioAt' = 0
    /\ sinceChange' = 0

\* catch (error) { attempts++ } and back to the loop's test
CatchInLoop ==
    /\ RaiseFault
    /\ attempts' = attempts + 1
    /\ pc' = "scroll"
    /\ caught' = caught + 1
    /\ cycle' = <<>>
    /\ scenarioAt' = -1
    /\ UNCHANGED <<previousHeight, eqs, stopReason, sinceChange>>

\* a failed write that loadAllImages swallows before it returns
WriteThrowSwallowed == "pause"

\* fs.writeFileSync stands in no try block of loadAllImages: what it
\* throws leaves loadAllImages and is caught by run
WriteThrowGoesTo == "catch"

\* a path that does not depend on the search term
UrlsFileShared(t) == 1

\* `output/captured_urls_${this.searchTerm}.json`: the file of term t
UrlsFileOf(t) == t

\* the loop is left and the checkpoint is written in the same synchronous
\* stretch; writeFileSync may throw, which leaves loadAllImages and reaches
\* run's catch
WriteCheckpoint(reason) ==
    /\ stopReason' = [stopReason EXCEPT ![k] = reason]
    /\ \/ /\ outFile' = [outFile EXCEPT ![UrlsFileOf(k)] =
                           WriteFile(@, JSONstringify(Snapshot(networkRequests[k])))]
          /\ written' = [written EXCEPT ![UrlsFileOf(k)] =
                           Snapshot(networkRequests[k])]
          /\ writes' = [writes EXCEPT ![UrlsFileOf(k)] = @ + 1]
          /\ fresh' = fresh \cup {UrlsFileOf(k)}
          /\ pc' = "pause"
          /\ UNCHANGED faultsLeft
          /\ UNCHANGED <<loopVars, eqs, caught, scenarioAt, sinceChange>>
          /\ cycle' = <<>>
       \/ /\ RaiseFault
          /\ pc' = WriteThrowGoesTo
          /\ LocalsGone
          /\ UNCHANGED fileVars

\* the loop's test holds: scroll to the bottom and wait; both awaits are
\* outside the try block, so a rejection leaves loadAllImages
Scroll ==
    /\ pc = "scroll"
    /\ LoopContinues(attempts)
    /\ \/ /\ pc' = NextStep("scroll")
          /\ cycle' = <<<<"scroll">>>>
          /\ UNCHANGED faultsLeft
          /\ sinceChange' = sinceChange + 1
          /\ UNCHANGED <<loopVars, eqs, caught, scenarioAt>>
       \/ /\ RaiseFault
          /\ pc' = "catch"
          /\ LocalsGone
    /\ UNCHANGED <<k, netVars, fileVars, dlVars, stopReason, procVars,
                   eventsLeft>>

\* the loop's test fails: the loop ends and the checkpoint is written
LoopExhausted ==
    /\ pc = "scroll"
    /\ ~LoopContinues(attempts)
    /\ WriteCheckpoint("exhausted")
    /\ UNCHANGED <<k, netVars, dlVars, procVars, eventsLeft>>

\* page.$ of the "load more" button: found, null (break) or rejected
Lookup ==
    /\ pc = "lookup"
    /\ \/ /\ pc' = NextStep("lookup")
          /\ cycle' = Append(cycle, <<"found">>)
          /\ UNCHANGED <<loopVars, fileVars, stopReason, eqs, caught,
                         scenarioAt, sinceChange, faultsLeft>>
       \/ WriteCheckpoint("absent")
       \/ /\ CatchInLoop
          /\ UNCHANGED fileVars
    /\ UNCHANGED <<k, netVars, dlVars, procVars, eventsLeft>>

\* loadMoreButton.click() and the settle wait
Click ==
    /\ pc = "click"
    /\ \/ /\ pc' = NextStep("click")
          /\ cycle' = Append(cycle, <<"click">>)
          /\ UNCHANGED <<loopVars, stopReason, eqs, caught, scenarioAt,
                         sinceChange, faultsLeft>>
       \/ CatchInLoop
    /\ UNCHANGED <<k, netVars, fileVars, dlVars, procVars, eventsLeft>>

\* currentHeight = document.body.scrollHeight and the comparison
Measure ==
    /\ pc = "measure"
    /\ \/ \E h \in Heights :
            /\ attempts' = StallAfterMeasure(attempts, previousHeight, h)
            /\ previousHeight' = HeightAfterMeasure(previousHeight, h)
            /\ pc' = NextStep("measure")
            /\ cycle' = Append(cycle, <<"measured", h>>)
            /\ eqs' = IF h = previousHeight THEN eqs + 1 ELSE 0
            /\ caught' = IF h = previousHeight THEN caught ELSE 0
            /\ scenarioAt' = IF /\ scenarioAt >= 0
                                /\ scenarioAt < Len(Scenario)
                                /\ Scenario[scenarioAt + 1] = h
                             THEN scenarioAt + 1 ELSE -1
            /\ sinceChange' = IF h = previousHeight THEN sinceChange ELSE 0
            /\ UNCHANGED <<stopReason, faultsLeft>>
       \/ CatchInLoop
    /\ UNCHANGED <<k, netVars, fileVars, dlVars, procVars, eventsLeft>>

\* a network-idle wait whose timeout is not caught
IdleWaitUncaught(timedOut) == timedOut

\* page.waitForLoadState("networkidle", { timeout: 5000 }).catch(...): the
\* promise awaited is the one .catch returns, which is fulfilled whether
\* the wait was
IdleWaitRejects(timedOut) == FALSE

\* waitForNewContent, first await: the network goes idle or the 5000 ms
\* pass ("Network idle timeout" is logged)
WaitForLoadState ==
    /\ pc = "waitNew"
    /\ \E timedOut \in BOOLEAN :
         IF IdleWaitRejects(timedOut)
         THEN /\ attempts' = attempts + 1
              /\ pc' = "scroll"
              /\ caught' = caught + 1
              /\ cycle' = <<>>
              /\ scenarioAt' = -1
              /\ UNCHANGED <<previousHeight, eqs, stopReason, sinceChange>>
         ELSE /\ pc' = NextStep("waitNew")
              /\ cycle' = Append(cycle, IF timedOut THEN <<"idleTimeout">>
                                                    ELSE <<"idle">>)
              /\ UNCHANGED <<loopVars, stopReason, eqs, caught, scenarioAt,
                             sinceChange>>
    /\ UNCHANGED <<k, netVars, fileVars, dlVars, procVars, envVars>>

\* waitForNewContent, second await: page.waitForFunction of a promise that
\* a mutation of the document resolves, or else the 1000 ms fallback timer;
\* a rejection of waitForFunction itself (its own timeout, a closed page)
\* is not caught here and reaches the loop's catch
WaitForFunction ==
    /\ pc = "waitDom"
    /\ \/ /\ \E timer \in BOOLEAN :
               cycle' = Append(cycle, IF timer THEN <<"fallbackTimer">>
                                               ELSE <<"mutation">>)
          /\ pc' = NextStep("waitDom")
          /\ UNCHANGED <<loopVars, stopReason, eqs, caught, scenarioAt,
                         sinceChange, faultsLeft>>
       \/ CatchInLoop
    /\ UNCHANGED <<k, netVars, fileVars, dlVars, procVars, eventsLeft>>

\* await this.waitForNewContent()
WaitForNewContent == WaitForLoadState \/ WaitForFunction

\* page.waitForTimeout(2000) after loadAllImages, then the next term or the
\* download pass.  The page is left alone during the download pass: the
\* model delivers no response event after the last term's collection.
Pause ==
    /\ pc = "pause"
    /\ \/ /\ IF MoreTerms(k)
             THEN pc' = "construct" /\ k' = k + 1 /\ UNCHANGED eventsLeft
             ELSE pc' = "dcheck" /\ k' = 1 /\ eventsLeft' = 0
          /\ UNCHANGED faultsLeft
       \/ /\ RaiseFault
          /\ pc' = "catch"
          /\ UNCHANGED <<k, eventsLeft>>
    /\ LocalsGone
    /\ UNCHANGED <<netVars, fileVars, dlVars, stopReason, procVars>>

(***************************************************************************)
(* ImageDownloader                                                         *)
(***************************************************************************)
\* if (res.statusCode === 200)
StatusOk(sc) == sc = 200

\* the for-of over SEARCH_TERMS moves on; after the last term
\* downloadAllImages returns to run
AdvanceTerm ==
    IF MoreTerms(k)
    THEN pc' = "dcheck" /\ k' = k + 1
    ELSE pc' = "close" /\ k' = k

\* i++ and the test of the inner loop
AfterItem ==
    /\ i' = NextIndex(i)
    /\ IF NextIndex(i) < Len(urls)
       THEN pc' = "fetch" /\ k' = k
       ELSE AdvanceTerm

\* one term of downloadAllImages up to its first download: existsSync,
\* readFileSync and JSON.parse; either of the last two may throw, which
\* leaves downloadAllImages
DownloadTerm ==
    /\ pc = "dcheck"
    /\ IF ~FileExists(outFile[k])
       THEN /\ console' = Append(console, <<"No URLs file found", SEARCH_TERMS[k]>>)
            /\ AdvanceTerm
            /\ UNCHANGED <<urls, i, faultsLeft>>
       ELSE \/ /\ JSONparse(outFile[k]).ok
               /\ urls' = JSONparse(outFile[k]).val
               /\ i' = 0
               /\ IF Len(urls') > 0
                  THEN pc' = "fetch" /\ k' = k
                  ELSE AdvanceTerm
               /\ UNCHANGED <<console, faultsLeft>>
            \/ /\ ~JSONparse(outFile[k]).ok
               /\ pc' = "catch"
               /\ UNCHANGED <<k, urls, i, console, faultsLeft>>
            \/ /\ RaiseFault
               /\ pc' = "catch"
               /\ UNCHANGED <<k, urls, i, console>>
    /\ UNCHANGED <<loopVars, netVars, fileVars, images, fetches, delayed,
                   loopHist, procVars, eventsLeft>>

\* catch (err) { console.error(`Failed to download ${fileName}:`, err) }
FailedItem(name) ==
    /\ console' = Append(console, <<"Failed to download", name>>)
    /\ AfterItem
    /\ UNCHANGED exitCode

\* One downloadImage call and what follows it up to the next await.
\*  - a response arrives: with status 200 the body is piped to a write
\*    stream on the file, which closes (resolve) or emits "error" (reject)
\*    either before the file is created or after; any other status rejects;
\*  - no response arrives: the request emits "error", which has no listener
\*    (https.get is given the response callback only), so the event is
\*    thrown as an uncaught exception and the process dies with status 1,
\*    outside run's try/catch.
Fetch ==
    /\ pc = "fetch"
    /\ LET name == FileName(SEARCH_TERMS[k], i)
       IN  /\ fetches' = Append(fetches, <<urls[i + 1], name>>)
           /\ delayed' = FALSE
           /\ \/ \E sc \in StatusCodes :
                   IF StatusOk(sc)
                   THEN \/ /\ images' = images \cup {name}
                           /\ console' = Append(console, <<"Downloaded", name>>)
                           /\ pc' = "delay"
                           /\ UNCHANGED <<k, i, exitCode, faultsLeft>>
                        \/ /\ RaiseFault
                           /\ images' \in {images, images \cup {name}}
                           /\ FailedItem(name)
                   ELSE /\ FailedItem(name)
                        /\ UNCHANGED <<images, faultsLeft>>
              \/ /\ RaiseFault
                 /\ pc' = "crashed"
                 /\ exitCode' = 1
                 /\ UNCHANGED <<k, i, images, console>>
    /\ UNCHANGED <<loopVars, netVars, fileVars, urls, loopHist, browserOpen,
                   eventsLeft>>

\* await new Promise((resolve) => setTimeout(resolve, 1000))
Delay ==
    /\ pc = "delay"
    /\ delayed' = TRUE
    /\ AfterItem
    /\ UNCHANGED <<loopVars, netVars, fileVars, urls, images, console,
                   fetches, loopHist, procVars, envVars>>

(***************************************************************************)
(* ImageScraper.run: the end of the run                                    *)
(***************************************************************************)
\* "All downloads completed!", browser.close(); run returns and the process
\* ends with status 0.  A rejection of browser.close reaches the catch.
Close ==
    /\ pc = "close"
    /\ \/ /\ browserOpen' = FALSE
          /\ exitCode' = 0
          /\ pc' = "done"
          /\ UNCHANGED faultsLeft
       \/ /\ RaiseFault
          /\ pc' = "catch"
          /\ UNCHANGED procVars
    /\ UNCHANGED <<k, loopVars, netVars, fileVars, dlVars, loopHist,
                   eventsLeft>>

\* a catch that logs the error and goes on with the downloads
CatchHandlerGoesOn ==
    /\ pc = "catch"
    /\ pc' = "dcheck"
    /\ k' = 1
    /\ UNCHANGED <<loopVars, netVars, fileVars, dlVars, loopHist, procVars,
                   envVars>>

\* catch (error) { console.error; await browser.close(); process.exit(1) }
CatchHandler ==
    /\ pc = "catch"
    /\ browserOpen' = FALSE
    /\ exitCode' = 1
    /\ pc' = "exited"
    /\ UNCHANGED <<k, loopVars, netVars, fileVars, dlVars, loopHist, envVars>>

(***************************************************************************)
(* The environment outside the process                                     *)
(***************************************************************************)
\* Something else removes a checkpoint file.  Only the download pass reads
\* these files, and a removal before it starts has the effect of one at its
\* start, so removals are taken while the download pass runs.
ExternalDelete ==
    /\ pc \in {"dcheck", "fetch", "delay"}
    /\ \E t \in TermIdx :
         /\ outFile[t] # NoFile
         /\ outFile' = [outFile EXCEPT ![t] = NoFile]
    /\ UNCHANGED <<pc, k, loopVars, netVars, written, writes, fresh, dlVars,
                   loopHist, procVars, envVars>>

(***************************************************************************)
(* Specifications                                                          *)
(***************************************************************************)
Next ==
    \/ Observe
    \/ Construct
    \/ Goto
    \/ PerformSearch
    \/ Scroll
    \/ LoopExhausted
    \/ Lookup
    \/ Click
    \/ Measure
    \/ WaitForNewContent
    \/ Pause
    \/ DownloadTerm
    \/ Fetch
    \/ Delay
    \/ Close
    \/ CatchHandler

\* the run with nothing else touching its files
Spec == Init /\ [][Next]_vars

NextEnv == Next \/ ExternalDelete

\* the run with checkpoint files removed from outside
SpecEnv == Init /\ [][NextEnv]_vars

\* loadAllImages of the first term is entered: the page is loaded, the
\* search is made, the term's callback is on the page
InitLoop ==
    /\ pc = "scroll"
    /\ k = 1
    /\ attempts = 0
    /\ previousHeight = 0
    /\ networkRequests = [t \in TermIdx |-> <<>>]
    /\ listeners = {1}
    /\ \E stale \in StaleArrays :
         written = [t \in TermIdx |-> IF t = 1 THEN stale ELSE NoFile]
    /\ outFile = [t \in TermIdx |->
                    IF written[t] = NoFile THEN NoFile
                    ELSE JSONstringify(written[t])]
    /\ urls = <<>>
    /\ i = 0
    /\ images = {}
    /\ console = <<>>
    /\ browserOpen = TRUE
    /\ exitCode = -1
    /\ eventsLeft = MaxEvents
    /\ faultsLeft = MaxFaults
    /\ observed = [t \in TermIdx |-> {}]
    /\ writes = [t \in TermIdx |-> IF written[t] = NoFile THEN 0 ELSE 1]
    /\ fresh = {}
    /\ stopReason = [t \in TermIdx |-> "none"]
    /\ cycle = <<>>
    /\ eqs = 0
    /\ caught = 0
    /\ scenarioAt = 0
    /\ sinceChange = 0
    /\ fetches = <<>>
    /\ delayed = FALSE

\* the steps of loadAllImages, and the page's responses during it
NextLoop ==
    \/ Observe
    \/ Scroll
    \/ LoopExhausted
    \/ Lookup
    \/ Click
    \/ Measure
    \/ WaitForNewContent

\* One call of loadAllImages, up to its return or its rejection.  Every
\* await of the loop is bounded by a timer of the browser driver or of the
\* page (evaluate, the selector query, click and waitForFunction time out,
\* waitForTimeout and the fallback timer fire), and the event loop runs the
\* continuation of a settled await, so a step that can be taken is taken.
SpecLoop == InitLoop /\ [][NextLoop]_vars /\ WF_vars(NextLoop)

(***************************************************************************)
(* Properties                                                              *)
(***************************************************************************)
Last(seq) == seq[Len(seq)]

(***************************************************************************)
(* C1: when the load loop stops by stall exhaustion                        *)
(***************************************************************************)
\* the step ends the load loop of term k by exhausting the stall counter
StopsExhausted == stopReason[k] = "none" /\ stopReason'[k] = "exhausted"

\* the step is a height measurement of the load loop
Measures == pc = "measure" /\ Len(cycle') = Len(cycle) + 1

\* C1, as claimed: the load loop stops by stall exhaustion exactly when
\* maxLoadAttempts cycles in a row measured a height equal to
\* previousHeight, so a loop that has stopped that way has counted that many
\* equal measurements since the counter was last 0.
C1_StopOnlyAfterEqualHeights ==
    (pc = "pause" /\ stopReason[k] = "exhausted") => eqs >= maxLoadAttempts

\* what every step does to the stall counter
C1_StepRule ==
    /\ StopsExhausted => (pc = "scroll" /\ attempts >= maxLoadAttempts)
    /\ (pc = "scroll" /\ pc' # "scroll" /\ attempts >= maxLoadAttempts)
          => StopsExhausted
    /\ Measures =>
          LET h == Last(cycle')[2]
          IN  /\ pc' = "waitNew"
              /\ stopReason' = stopReason
              /\ previousHeight' = h
              /\ IF h = previousHeight
                 THEN attempts' = attempts + 1 /\ eqs' = eqs + 1
                 ELSE attempts' = 0 /\ eqs' = 0 /\ caught' = 0
    /\ attempts' = eqs' + caught'

\* C1, as amended: the stall counter is the number of equal-height
\* measurements plus the number of faults caught inside the loop since the
\* counter was last 0; the loop stops by exhaustion exactly when the loop's
\* test finds the counter at maxLoadAttempts or more; a measurement of a
\* different height sets the counter to 0, records the height and goes on
\* with the cycle, and one of the same height adds 1.
C1_StallCounterRule == (attempts = eqs + caught) /\ [][C1_StepRule]_vars

\* C1, witness: a loop stopped by exhaustion whose counter holds both equal
\* measurements and a caught fault
C1_Witness ==
    /\ pc = "pause"
    /\ stopReason[k] = "exhausted"
    /\ caught >= 1
    /\ eqs >= 1

(***************************************************************************)
(* C2: the checkpoint holds each URL once, in first-seen order             *)
(***************************************************************************)
\* the step writes the checkpoint file of term k
WritesCheckpoint == writes'[k] = writes[k] + 1

NoDuplicates(seq) ==
    \A a, b \in DOMAIN seq : a # b => seq[a] # seq[b]

\* the place of the first occurrence of x in seq
FirstIndex(seq, x) ==
    CHOOSE a \in DOMAIN seq : seq[a] = x /\ \A b \in 1..(a - 1) : seq[b] # x

\* the text a checkpoint write leaves, read back, against the collector
C2_WrittenCheckpoint ==
    WritesCheckpoint =>
        LET r == JSONparse(outFile'[k])
            s == networkRequests[k]
        IN  /\ r.ok
            /\ NoDuplicates(r.val)
            /\ Range(r.val) = Range(s)
            /\ \A a, b \in DOMAIN r.val :
                  a < b => FirstIndex(s, r.val[a]) < FirstIndex(s, r.val[b])

\* C2: the checkpoint written for a query holds every URL its collector
\* has pushed exactly once, however often it was pushed, in the order in
\* which each was first pushed.
C2_CheckpointDedupFirstSeen == [][C2_WrittenCheckpoint]_vars

\* C2, witness: the collector saw a, b, a and the checkpoint holds a, b
C2_Witness ==
    /\ pc = "pause"
    /\ networkRequests[k] = <<UrlA, UrlB, UrlA>>
    /\ JSONparse(outFile[k]).val = <<UrlA, UrlB>>

(***************************************************************************)
(* C3, C4, C7: the download pass and its failures                          *)
(***************************************************************************)
\* the console lines of the download pass that report an attempt
AttemptLines ==
    {a \in DOMAIN console :
        console[a][1] \in {"Downloaded", "Failed to download"}}

\* the downloadImage calls made for term t
Attempted(t) ==
    {f \in Range(fetches) : f[2][1] = SEARCH_TERMS[t]}

\* C3, as claimed: the URL at position p of a term's checkpoint is
\* attempted under the name <term>-<p>; an attempt that fails leaves no
\* file of that name and a failure line for it, one that succeeds leaves
\* the file; and once the pass is through with a term (or the process has
\* ended during it), every position of the term's checkpoint has been
\* attempted under its own ordinal.
C3_OrdinalsFollowCheckpoint ==
    /\ \A f \in Range(fetches) :
          LET name == f[2]
              t    == CHOOSE t \in TermIdx : SEARCH_TERMS[t] = name[1]
          IN  /\ name[2] \in DOMAIN written[t]
              /\ f[1] = written[t][name[2]]
              /\ \/ /\ name \in images
                    /\ <<"Downloaded", name>> \in Range(console)
                    /\ <<"Failed to download", name>> \notin Range(console)
                 \/ /\ name \notin images
                    /\ <<"Failed to download", name>> \in Range(console)
                    /\ <<"Downloaded", name>> \notin Range(console)
    /\ \A t \in TermIdx :
          (Attempted(t) # {} /\ (exitCode # -1 \/ k > t))
             => \A p \in DOMAIN written[t] :
                   <<written[t][p], FileName(SEARCH_TERMS[t], p - 1)>>
                      \in Range(fetches)

\* C4, as claimed: every download attempt, failed or not, leaves its line
\* on the console and the pass goes on: no attempt ends the process.
C4_ItemFailureIsolated ==
    /\ Cardinality(AttemptLines) = Len(fetches)
    /\ pc # "crashed"

\* C7, as claimed: when a download attempt starts and another was made
\* before it, the inter-download delay has run since that one ended.
C7_DelayBetweenAttempts ==
    (pc = "fetch" /\ fetches # <<>>) => delayed

(***************************************************************************)
(* C5: a checkpoint reads back as it was last written                      *)
(***************************************************************************)
\* the step is the download pass reading the checkpoint file of term k,
\* with no fault raised by the file system
ReadsCheckpoint ==
    /\ pc = "dcheck"
    /\ outFile[k] # NoFile
    /\ pc' # pc \/ k' # k
    /\ faultsLeft' = faultsLeft

\* the read neither throws nor gives another array than the last written
C5_ReadStep == ReadsCheckpoint => (pc' # "catch" /\ urls' = written[k])

\* C5: reading a term's checkpoint gives exactly the array most recently
\* written for the term, in content and order, whatever the file held
\* before that write.
C5_ReadReturnsLastWritten == [][C5_ReadStep]_vars

\* C5, witness: the file of term k was written by an earlier run and again
\* by this one, and the download pass has read this run's array
C5_Witness ==
    /\ pc = "fetch"
    /\ i = 0
    /\ writes[k] = 2
    /\ urls = written[k]
    /\ urls = <<UrlA, UrlB>>

(***************************************************************************)
(* C6: a term without a checkpoint file                                    *)
(***************************************************************************)
NoFileNotice(t) == <<"No URLs file found", SEARCH_TERMS[t]>>

\* the step is the download pass taking up term k and finding no file
FindsNoCheckpoint ==
    /\ pc = "dcheck"
    /\ outFile[k] = NoFile
    /\ pc' # pc \/ k' # k

\* what the download pass does on a missing file
C6_StepRule ==
    /\ FindsNoCheckpoint =>
          /\ console' = Append(console, NoFileNotice(k))
          /\ fetches' = fetches
          /\ exitCode' = -1
          /\ IF k < N
             THEN pc' = "dcheck" /\ k' = k + 1
             ELSE pc' = "close"
    /\ \A t \in TermIdx :
          NoFileNotice(t) \in Range(console') => Attempted(t)' = {}

\* C6: a term whose checkpoint file does not exist gets a notice and no
\* error, no download is ever attempted for it, and the pass goes on with
\* the next term (or returns after the last one).
C6_MissingCheckpointSkipped == [][C6_StepRule]_vars

\* C6, witness: the first term was skipped for want of a file and the pass
\* is downloading for the second
C6_Witness ==
    /\ NoFileNotice(1) \in Range(console)
    /\ pc = "fetch"
    /\ k = 2

(***************************************************************************)
(* C8: the convergence scenario                                            *)
(***************************************************************************)
\* C8, as claimed: fed the readings of Scenario, the loop stops at the
\* reading at index 10, so the reading at index 11 (height 200) is never
\* taken.
C8_StopsBeforeLastReading == scenarioAt < Len(Scenario)

\* C8, as amended: fed the readings of Scenario, the loop has counted 9
\* stalls after the reading at index 10 (the first 150 is a change, not a
\* stall), so it does not stop by exhaustion there or earlier, and the
\* reading at index 11 resets the counter and records height 200.
C8_ScenarioCountsNineStalls ==
    /\ scenarioAt = Len(Scenario) - 1 => (attempts = 9 /\ previousHeight = 150)
    /\ scenarioAt = Len(Scenario) => (attempts = 0 /\ previousHeight = 200)
    /\ (pc = "pause" /\ stopReason[k] = "exhausted") => scenarioAt = -1

\* C8, witness: the loop has taken all twelve readings of Scenario
C8_Witness == scenarioAt = Len(Scenario) /\ pc = "waitNew"

(***************************************************************************)
(* C9: what the collector pushes                                           *)
(***************************************************************************)
\* the URL is the configured prefix followed by something
HasPrefix(url) ==
    \E n \in 0..Len(url) : url = GALLERY_URL_PREFIX \o SubSeq(url, n + 1, Len(url))

\* C9: the URLs a collector holds are exactly the URLs its callback was
\* called with that start with the configured prefix.
C9_CollectsIffPrefix ==
    \A t \in TermIdx :
        Range(networkRequests[t]) = {u \in observed[t] : HasPrefix(u)}

\* C9, witness: a collector that was called with a matching and with a
\* non-matching URL
C9_Witness ==
    \E t \in TermIdx :
        /\ UrlX \in observed[t]
        /\ UrlA \in Range(networkRequests[t])

(***************************************************************************)
(* C10: the absent "load more" button                                      *)
(***************************************************************************)
\* in the cycle under way a height was measured
MeasuredInCycle == \E a \in DOMAIN cycle : cycle[a][1] = "measured"

\* in the cycle under way the button was looked up and found
FoundInCycle == \E a \in DOMAIN cycle : cycle[a] = <<"found">>

\* the step finds the button absent
FindsAbsent == stopReason[k] = "none" /\ stopReason'[k] = "absent"

\* what a step does about the button and the height
C10_StepRule ==
    /\ MeasuredInCycle' => FoundInCycle'
    /\ FindsAbsent =>
          /\ pc = "lookup"
          /\ ~MeasuredInCycle
          /\ pc' \in {"pause", "catch"}
          /\ pc' = "pause" =>
                (attempts' = attempts /\ previousHeight' = previousHeight)
    /\ (pc = "lookup" /\ pc' = "pause") => FindsAbsent

\* C10: in a cycle the height is measured only after the button was looked
\* up and found; a lookup that finds no button ends the loop in that step,
\* for any counter and any recorded height, with no height measured in the
\* cycle and the counter and the recorded height as they were.
C10_AbsentStopsBeforeMeasure == [][C10_StepRule]_vars

\* C10, witness: the loop was ended by an absent button while the counter
\* and the recorded height were not 0
C10_Witness ==
    /\ pc = "pause"
    /\ stopReason[k] = "absent"
    /\ attempts >= 2
    /\ previousHeight = 150

(***************************************************************************)
(* C11: faults raised inside the load loop                                 *)
(***************************************************************************)
\* the awaits of one pass through the body of the load loop
LoopPcs == {"scroll", "lookup", "click", "measure", "waitNew", "waitDom"}

\* the step is an action of a load cycle that raises a fault (and not the
\* write of the checkpoint, which is made once the loop has stopped)
CycleActionFaults ==
    /\ pc \in LoopPcs
    /\ faultsLeft' = faultsLeft - 1
    /\ stopReason' = stopReason

\* what the claim says such a step does
C11_StepRule ==
    CycleActionFaults => (attempts' = attempts + 1 /\ pc' = "scroll")

\* C11, as claimed: a fault raised by any action of a load cycle, the
\* scroll to the bottom and the wait after it included, does not leave the
\* load loop: it adds 1 to the stall counter and the loop goes back to its
\* test.
C11_CycleFaultIsStall == [][C11_StepRule]_vars

(***************************************************************************)
(* C12: one attempt for every position of every checkpoint                 *)
(***************************************************************************)
\* the awaits of the download pass
DownloadPcs == {"dcheck", "fetch", "delay"}

\* the downloadImage calls made for term t, in the order they were made
FetchesOf(t) ==
    SelectSeq(fetches, LAMBDA f : f[2][1] = SEARCH_TERMS[t])

\* one call for each position of term t's checkpoint, in checkpoint order,
\* under the ordinals 1, 2, ...
ExpectedFetches(t) ==
    [p \in 1..Len(written[t]) |->
        <<written[t][p], FileName(SEARCH_TERMS[t], p - 1)>>]

IsPrefix(s, t) == Len(s) <= Len(t) /\ s = SubSeq(t, 1, Len(s))

\* the download pass is through with term t: it has moved on to a later
\* term, or it has returned, or the process has ended inside it
ThroughWith(t) ==
    \/ pc \in DownloadPcs /\ k > t
    \/ pc \in {"close", "done", "crashed"}

\* C12, as claimed: the attempts made for a term are, in order, those of
\* the positions 1, 2, ... of its checkpoint, each made once (no item is
\* tried again), and when the pass is through with a term that has a
\* checkpoint every position has had its attempt (no item is left out).
C12_OneAttemptPerPosition ==
    \A t \in TermIdx :
        /\ written[t] # NoFile => IsPrefix(FetchesOf(t), ExpectedFetches(t))
        /\ written[t] = NoFile => FetchesOf(t) = <<>>
        /\ (ThroughWith(t) /\ outFile[t] # NoFile)
              => FetchesOf(t) = ExpectedFetches(t)

(***************************************************************************)
(* C13: the checkpoint written when the load loop stops                    *)
(***************************************************************************)
\* the step ends the load loop of term k
LoopStops == stopReason[k] = "none" /\ stopReason'[k] # "none"

\* the step writes the file of term k, and no other, with the collector's
\* URLs, each once
WritesOwnCheckpoint ==
    /\ writes' = [writes EXCEPT ![k] = @ + 1]
    /\ \A t \in TermIdx \ {k} : outFile'[t] = outFile[t]
    /\ JSONparse(outFile'[k]).ok
    /\ NoDuplicates(JSONparse(outFile'[k]).val)
    /\ Range(JSONparse(outFile'[k]).val) = Range(networkRequests[k])

\* what a step does about the checkpoint files
C13_StepRule ==
    /\ LoopStops =>
          /\ stopReason'[k] \in {"absent", "exhausted"}
          /\ \/ pc' = "pause" /\ WritesOwnCheckpoint
             \/ pc' = "catch" /\ writes' = writes /\ outFile' = outFile
    /\ (pc # "pause" /\ pc' = "pause") => LoopStops
    /\ writes' # writes => (LoopStops /\ pc' = "pause")
    /\ outFile' # outFile => (LoopStops /\ pc' = "pause")

\* C13: when the load loop of a query stops, by an absent button or by the
\* stall counter, the same step writes the file of that query, once, with
\* the deduplicated URLs its collector holds at that moment, and only then
\* does loadAllImages return; loadAllImages returns in no other way, and
\* nothing else writes a checkpoint.  (A write that throws leaves no
\* checkpoint and loadAllImages does not return.)
C13_StopWritesOneCheckpoint == [][C13_StepRule]_vars

\* C13, witness: the first term's loop stopped by the stall counter and the
\* second's by an absent button, and the second's file was written with
\* one URL its collector had got twice
C13_Witness ==
    /\ pc = "pause"
    /\ k = 2
    /\ stopReason = <<"exhausted", "absent">>
    /\ networkRequests[2] = <<UrlA, UrlA>>
    /\ JSONparse(outFile[2]).val = <<UrlA>>
    /\ fresh = {1, 2}

(***************************************************************************)
(* C14: how a fatal fault ends the run                                     *)
(***************************************************************************)
\* the process has ended
Ended == exitCode # -1

\* C14, as claimed: a fault that leaves the collection pass or the download
\* pass ends the run without another try: the process ends with a status
\* other than 0 only after the browser session was closed, and once the
\* fault is in run's catch nothing is collected or downloaded any more.
C14_FatalFaultClosesThenExits ==
    /\ (Ended /\ exitCode # 0) => ~browserOpen
    /\ pc = "catch" => (browserOpen /\ ~Ended)
    /\ pc = "exited" => exitCode = 1

(***************************************************************************)
(* C15: the order of a run                                                 *)
(***************************************************************************)
\* the awaits of the collection of one term
CollectionPcs == {"construct", "goto", "search", "pause"} \cup LoopPcs

\* the term a downloadImage call was made for
TermOf(f) == CHOOSE t \in TermIdx : SEARCH_TERMS[t] = f[2][1]

\* the load loop of term t has returned
Returned(t) == stopReason[t] # "none" /\ t \in fresh

\* the load loop of term t has not been started
NotStarted(t) == stopReason[t] = "none" /\ t \notin fresh /\ t \notin listeners

\* C15: while a term is collected, the loops of all terms before it in
\* SEARCH_TERMS have returned and no later term has been started; no
\* download is attempted before the loop of the last term has returned;
\* the attempts go through the terms in list order and, within a term,
\* through the positions 1, 2, ... of its checkpoint, the next attempt
\* being the one after the last.
C15_ListOrderThenCheckpointOrder ==
    /\ pc \in CollectionPcs =>
          /\ fetches = <<>>
          /\ \A t \in TermIdx :
                /\ t < k => Returned(t)
                /\ t > k => NotStarted(t)
          /\ pc = "pause" => Returned(k)
    /\ (pc \in DownloadPcs \/ fetches # <<>>) =>
          \A t \in TermIdx : Returned(t)
    /\ \A a \in DOMAIN fetches :
          /\ fetches[a][1] = written[TermOf(fetches[a])][fetches[a][2][2]]
          /\ IF a = 1 \/ TermOf(fetches[a - 1]) # TermOf(fetches[a])
             THEN fetches[a][2][2] = 1
             ELSE fetches[a][2][2] = fetches[a - 1][2][2] + 1
          /\ a > 1 => TermOf(fetches[a - 1]) <= TermOf(fetches[a])
    /\ (pc \in {"fetch", "delay"} /\ fetches # <<>>) =>
          /\ TermOf(Last(fetches)) <= k
          /\ TermOf(Last(fetches)) = k =>
                Last(fetches)[2][2] = IF pc = "fetch" THEN i ELSE i + 1

\* C15, witness: both terms were collected and downloads were attempted
\* for the first term's two URLs and then for the second term's first
C15_Witness ==
    /\ pc = "delay"
    /\ k = 2
    /\ Len(fetches) = 3
    /\ fetches[1][2] = <<"carrot", 1>>
    /\ fetches[2][2] = <<"carrot", 2>>
    /\ fetches[3][2] = <<"apple", 1>>

(***************************************************************************)
(* C16: the load loop ends on an exhausted feed                            *)
(***************************************************************************)
\* the step measures a height other than the recorded one
HeightChanges == Measures /\ previousHeight' # previousHeight

\* a measurement that differs from the recorded height, made after exactly
\* one stalled cycle, resets the counter and leaves the loop running
C16_StepRule ==
    (HeightChanges /\ attempts = 1) =>
        (attempts' = 0 /\ pc' \in LoopPcs /\ stopReason' = stopReason)

\* C16: if from some point on no measurement differs from the recorded
\* height, the load loop is eventually left for good; a cycle is never
\* begun when maxLoadAttempts cycles have been begun since the height last
\* changed, and the loop does not stop by exhaustion on fewer stalls than
\* maxLoadAttempts; a single stalled cycle followed by a cycle whose height
\* differs does not stop the loop.
C16_ExhaustedFeedTerminates ==
    /\ [](sinceChange <= maxLoadAttempts /\ sinceChange <= attempts + 1)
    /\ []((pc = "pause" /\ stopReason[k] = "exhausted")
             => attempts >= maxLoadAttempts)
    /\ [][C16_StepRule]_vars
    /\ (<>[][~HeightChanges]_vars) => <>[](pc \notin LoopPcs)

\* C16, witness: the height changed twice and then the loop began
\* maxLoadAttempts cycles, all of them stalled, and stopped by exhaustion
C16_Witness ==
    /\ pc = "pause"
    /\ stopReason[k] = "exhausted"
    /\ sinceChange = maxLoadAttempts
    /\ eqs = maxLoadAttempts
    /\ previousHeight = 200

(***************************************************************************)
(* C17: the settle waits of a load cycle                                   *)
(***************************************************************************)
\* the step is the network-idle wait running into its 5000 ms timeout
IdleTimesOut ==
    pc = "waitNew" /\ cycle' = Append(cycle, <<"idleTimeout">>)

\* the step is the DOM wait ended by its 1000 ms fallback timer
FallbackFires ==
    pc = "waitDom" /\ cycle' = Append(cycle, <<"fallbackTimer">>)

\* the step leaves the counter, the recorded height and the loop as they are
LoopUntouched ==
    /\ attempts' = attempts
    /\ previousHeight' = previousHeight
    /\ stopReason' = stopReason
    /\ sinceChange' = sinceChange
    /\ pc' \in LoopPcs

\* what the two waits do when their bound runs out
C17_StepRule ==
    /\ IdleTimesOut => (LoopUntouched /\ pc' = "waitDom")
    /\ FallbackFires => (LoopUntouched /\ pc' = "scroll")
    /\ (pc = "waitNew" /\ pc' # "waitNew") => (LoopUntouched /\ pc' = "waitDom")

\* C17: a network-idle wait that runs into its timeout, and a DOM wait that
\* is ended by its fallback timer, go on exactly as the same wait does when
\* the page settles: the next await of the cycle follows, the stall counter
\* and the recorded height are unchanged and the loop is not left; the
\* network-idle wait never ends in any other way.
C17_SettleTimeoutAsSettled == [][C17_StepRule]_vars

\* C17, witness: a cycle counted a stall, then both of its waits ran out,
\* and the loop is back at its test with the counter as the measurement
\* left it
C17_Witness ==
    /\ pc = "scroll"
    /\ Len(cycle) = 6
    /\ cycle[5] = <<"idleTimeout">>
    /\ cycle[6] = <<"fallbackTimer">>
    /\ attempts = 1
    /\ eqs = 1

(***************************************************************************)
(* C18: the observation window of a query                                  *)
(***************************************************************************)
\* the step calls the response callback of term t's PageHandler
CallsCollector(t) == observed'[t] # observed[t]

\* the step makes term t's collector record a URL
Records(t) == Len(networkRequests'[t]) > Len(networkRequests[t])

\* what the claim says of a response event
C18_StepRule ==
    /\ \A t \in TermIdx :
          (CallsCollector(t) \/ Records(t)) =>
              (t = k /\ pc \in CollectionPcs \cup {"catch"})
    /\ Cardinality({t \in TermIdx : Records(t)}) <= 1

\* C18, as claimed: a response event is handed only to the collector of
\* the query being collected when it arrives, so a collector records
\* nothing while another query is the active one, and one event is
\* recorded by at most one collector.
C18_OwnObservationWindow == [][C18_StepRule]_vars

(***************************************************************************)
(* C19: the checkpoints the download pass finds                            *)
(***************************************************************************)
\* downloadAllImages has been called
DownloadStarted == pc \in DownloadPcs \cup {"close", "done", "crashed"}

\* C19: once the download pass has started, this run has written the file
\* of every term of SEARCH_TERMS and each file holds what this run wrote,
\* so the pass reads this run's array for each term, not an earlier run's,
\* and never reports a missing file; before that no download is attempted.
C19_DownloadReadsOwnCheckpoints ==
    /\ DownloadStarted =>
          /\ fresh = TermIdx
          /\ \A t \in TermIdx :
                /\ written[t] # NoFile
                /\ outFile[t] = JSONstringify(written[t])
                /\ NoFileNotice(t) \notin Range(console)
          /\ pc \in {"fetch", "delay"} => urls = written[k]
    /\ fetches # <<>> => fresh = TermIdx

\* C19, witness: the run began with a file of an earlier run for the
\* first term and none for the second, wrote both, and its download pass
\* has read its own
C19_Witness ==
    /\ pc = "fetch"
    /\ k = 2
    /\ writes = <<2, 1>>
    /\ urls = <<UrlA>>
    /\ written[1] = <<>>

(***************************************************************************)
(* C20: what a fatal fault of the collection leaves behind                 *)
(***************************************************************************)
\* the step is a fault of the collection of term k that reaches run's catch
FatalInCollection == pc \in CollectionPcs /\ pc' = "catch"

\* no step after the fault downloads or writes anything
NothingAfterCatch ==
    pc \in {"catch", "exited"} =>
        /\ pc' \in {"catch", "exited"}
        /\ fetches' = fetches
        /\ outFile' = outFile
        /\ writes' = writes
        /\ fresh' = fresh

\* the fault finds no download made, the files of the earlier terms written
\* and none written for a later term, and changes no file
FaultLeavesFiles ==
    /\ fetches = <<>>
    /\ fetches' = <<>>
    /\ outFile' = outFile
    /\ writes' = writes
    /\ fresh' = fresh
    /\ \A t \in TermIdx :
          /\ t < k => t \in fresh
          /\ t > k => t \notin fresh

\* what the claim says a fatal fault of the collection does
C20_StepRuleAsClaimed ==
    /\ FatalInCollection => (FaultLeavesFiles /\ k \notin fresh)
    /\ NothingAfterCatch

\* C20, as claimed: a fatal fault in the collection of a term leaves no
\* download attempted, the checkpoints written so far unchanged, and no
\* checkpoint of this run for the faulting term or any later one.
C20_FaultingQueryHasNoCheckpoint == [][C20_StepRuleAsClaimed]_vars

\* what a fatal fault of the collection does
C20_StepRule ==
    /\ FatalInCollection =>
          /\ FaultLeavesFiles
          /\ k \in fresh <=> pc = "pause"
    /\ NothingAfterCatch

\* C20, as amended: a fatal fault in the collection of a term leaves no
\* download attempted in the run, the checkpoints written so far unchanged
\* and no checkpoint of this run for any later term; the faulting term has
\* a checkpoint of this run exactly when the fault is raised by the pause
\* that follows loadAllImages, after its checkpoint was written.
C20_NoDownloadAfterCollectionFault == [][C20_StepRule]_vars

\* C20, witness: the first term's checkpoint was written, the pause after
\* it faulted, and the run has exited with nothing downloaded and nothing
\* written for the second term
C20_Witness ==
    /\ pc = "exited"
    /\ k = 1
    /\ fresh = {1}
    /\ written[1] = <<UrlA, UrlB>>
    /\ outFile[1] = JSONstringify(written[1])
    /\ outFile[2] = NoFile
    /\ fetches = <<>>

=============================================================================
